---------------------------- MODULE Spec2Model ----------------------------
(* SmartStore: the ticket unification and embedding pipeline               *)
(* (services/tickets_builder.py), the product embedding pipeline           *)
(* (services/products_builder.py) and the query helper they share          *)
(* (services/bq.py), modelled at the granularity of one SQL statement.     *)
EXTENDS Integers, Sequences, FiniteSets, TLC

(***************************************************************************)
(* Bounds of the model.                                                    *)
(***************************************************************************)
MaxRecords == 2   \* raw records over the four sources together
MaxConcRecords == 1   \* raw records when two sessions rebuild concurrently
MaxProducts == 3   \* rows of the catalog the products builder runs over
MaxRows == 2      \* rows of a table the backfill functions are called on

(***************************************************************************)
(* State.                                                                  *)
(***************************************************************************)
VARIABLES
  forms, chats, emails, audio,   \* raw sources
  call_object_table,             \* external object table over the call audio
  call_transcriptions,           \* output of ML.TRANSCRIBE
  tickets,                       \* the unified table
  products,                      \* the catalog table
  gcs_prefix,                    \* config.GCS_Images_URI
  pc,                            \* per invocation: the statement it is at
  log,                           \* per invocation: statements issued, with results
  stream,                        \* rows of union_all of the last build, in engine order
  fills,                         \* the latest back-to-back runs of one backfill
  replaced,                      \* embedded form rows of the table the last build replaced
  hc,                            \* Help Center session: the "Get answer" requests so far
  aa,                            \* Agent Assistant session: st.session_state and its submissions
  dash,                          \* dashboard: the churn scores and the distribution computed
  esc,                           \* a user text on its way through _escape_str into the SQL
  norm                           \* a prefix on its way through _normalize_gcs_prefix

(***************************************************************************)
(* Values.  SQL NULL of a STRING column is the string NULL; SQL NULL of an *)
(* ARRAY<FLOAT64> column is the empty tuple NullVec.                       *)
(***************************************************************************)
NULL == "<null>"
NullVec == <<>>

Rec(s, b, a, t, p) ==
  [subject |-> s, body |-> b, answer |-> a, type |-> t, priority |-> p]

LoginRec == Rec("Login issue", "Cannot log in", "Reset password via link",
                "Account & Access", "medium")
RefundRec == Rec("Refund", "Charged twice", "Refund issued", "not-a-type", NULL)
BlankTypeRec == Rec("Invoice", "No invoice received", "Invoice sent", "", "urgent")
EmptyAnswerRec == Rec("Refund", "Charged twice", "", "Other", "low")
NullSubjectRec == Rec(NULL, "Cannot log in", "Reset password via link", "Other", "high")
NullBodyRec == Rec("Login issue", NULL, "Reset password via link", "Billing and Payments", "high")

\* rows a raw forms table may hold
FormRecs == {LoginRec, RefundRec, BlankTypeRec, NullBodyRec}
\* records AI.GENERATE_TABLE may return for one prompt (fields may be null or empty)
ExtractOut == {LoginRec, NullSubjectRec, EmptyAnswerRec}

RawChats == {"chat-1"}
RawEmails == {"email-1"}
AudioObjs == {"gs://calls/a.wav"}

BoundedSeq(S, n) == UNION {[1..k -> S] : k \in 0..n}

(***************************************************************************)
(* SQL expressions.                                                        *)
(***************************************************************************)
Coalesce(x, d) == IF x = NULL THEN d ELSE x

\* CONCAT(COALESCE(a, ''), ' ', COALESCE(b, ''))
Content(a, b) == Coalesce(a, "") \o " " \o Coalesce(b, "")

\* ML.GENERATE_EMBEDDING over a text content
Embed(content) == <<"text", content>>

\* the gate without its test of answer
CompleteNoAnswer(r) ==
  /\ r.subject # NULL /\ r.subject # ""
  /\ r.body # NULL /\ r.body # ""

\* subject IS NOT NULL AND subject != '' AND body ... AND answer ...
Complete(r) ==
  /\ r.subject # NULL /\ r.subject # ""
  /\ r.body # NULL /\ r.body # ""
  /\ r.answer # NULL /\ r.answer # ""

(***************************************************************************)
(* Tables: exists, the set of derived columns present, the rows.  A row    *)
(* record always has a field per derived column; it is the null value      *)
(* while the column is absent.                                             *)
(***************************************************************************)
NoTable == [exists |-> FALSE, cols |-> {}, rows |-> {}]

NullStr == <<NULL>>   \* SQL NULL of a STRING column held as a sequence of characters

NullOf(col) == IF col = "uri" THEN NullStr ELSE NullVec

\* an ALTER that recreates the column, present or not
AddColumnReset(t, col) ==
  [t EXCEPT !.cols = @ \cup {col},
            !.rows = {[r EXCEPT ![col] = NullOf(col)] : r \in @}]

\* ALTER TABLE t ADD COLUMN IF NOT EXISTS col
AddColumn(t, col) ==
  IF col \in t.cols THEN t
  ELSE [t EXCEPT !.cols = @ \cup {col},
                 !.rows = {[r EXCEPT ![col] = NullOf(col)] : r \in @}]

\* an update that clears a populated cell instead of leaving it
SetValueToggle(cur, new) == IF cur = NullVec THEN new ELSE NullVec

\* SET t.embedding_col = s.embedding
SetValue(cur, new) == new

\* a join on the id of the next row
MatchesShifted(r, idcol, src) == {s \in src : s.id = r[idcol] + 1}

\* the rows of the subquery s that join a target row: WHERE t.id = s.id
Matches(r, idcol, src) == {s \in src : s.id = r[idcol]}

\* UPDATE t SET t.col = s.embedding FROM src AS s WHERE t.id = s.id
UpdateFrom(t, idcol, col, src) ==
  [t EXCEPT !.rows =
     {IF Matches(r, idcol, src) = {} THEN r
      ELSE [r EXCEPT ![col] =
              SetValue(r[col], (CHOOSE s \in Matches(r, idcol, src) : TRUE).embedding)]
      : r \in @}]

\* the UPDATE is rejected when the column is missing or a row joins several source rows
CanUpdate(t, idcol, col, src) ==
  /\ t.exists
  /\ col \in t.cols
  /\ \A r \in t.rows : Cardinality(Matches(r, idcol, src)) <= 1

\* SELECT id, embedding FROM ML.GENERATE_EMBEDDING(SELECT id, CONCAT(...) FROM t)
TextSource(t, idcol, c1, c2) ==
  {[id |-> r[idcol], embedding |-> Embed(Content(r[c1], r[c2]))] : r \in t.rows}

\* the UPDATE embedding subject and answer instead of subject and body
BackfillTicketsWrongText(t) ==
  UpdateFrom(t, "ticket_id", "text_embedding",
             TextSource(t, "ticket_id", "subject", "answer"))

\* tickets_builder.build_text_embeddings, the UPDATE
BackfillTickets(t) ==
  UpdateFrom(t, "ticket_id", "text_embedding",
             TextSource(t, "ticket_id", "subject", "body"))

CanBackfillTickets(t) ==
  CanUpdate(t, "ticket_id", "text_embedding",
            TextSource(t, "ticket_id", "subject", "body"))

(***************************************************************************)
(* build_tickets_table                                                     *)
(***************************************************************************)
Tagged(kind, tbl, recs) ==
  [i \in 1..Len(recs) |->
     [origin |-> <<tbl, i>>, source |-> kind, subject |-> recs[i].subject,
      body |-> recs[i].body, answer |-> recs[i].answer, type |-> recs[i].type,
      priority |-> recs[i].priority]]

\* a union whose chat and email branches carry each other's tag
UnionAllSwappedTags(f, xc, xe, xk) ==
  Tagged("form", "forms", f) \o Tagged("email", "chats", xc)
    \o Tagged("chat", "emails", xe) \o Tagged("call", "call_transcriptions", xk)

\* a union whose forms branch defaults the priority as the extractor branches could
UnionAllFormsDefaulted(f, xc, xe, xk) ==
  Tagged("form", "forms", [i \in 1..Len(f) |-> [f[i] EXCEPT !.priority = Coalesce(@, "low")]])
    \o Tagged("chat", "chats", xc)
    \o Tagged("email", "emails", xe) \o Tagged("call", "call_transcriptions", xk)

\* UNION (DISTINCT) instead of UNION ALL: a row equal to an earlier one is dropped
UnionAllDistinct(f, xc, xe, xk) ==
  LET u == Tagged("form", "forms", f) \o Tagged("chat", "chats", xc)
             \o Tagged("email", "emails", xe) \o Tagged("call", "call_transcriptions", xk)
      Same(x, y) == [x EXCEPT !.origin = <<>>] = [y EXCEPT !.origin = <<>>]
      First[i \in 0..Len(u)] ==
        IF i = 0 THEN <<>>
        ELSE IF \E j \in 1..(i - 1) : Same(u[j], u[i]) THEN First[i - 1]
        ELSE Append(First[i - 1], u[i])
  IN First[Len(u)]

\* forms_prepped UNION ALL from_chats UNION ALL from_emails UNION ALL from_calls
UnionAll(f, xc, xe, xk) ==
  Tagged("form", "forms", f) \o Tagged("chat", "chats", xc)
    \o Tagged("email", "emails", xe) \o Tagged("call", "call_transcriptions", xk)

\* a filter that also wants a type and a priority
WhereCompleteAndTyped(s) ==
  SelectSeq(s, LAMBDA r : Complete(r) /\ r.type \notin {NULL, "", "not-a-type"}
                                      /\ r.priority \in {"high", "medium", "low"})

\* WHERE subject IS NOT NULL AND ... : evaluated on the rows of union_all
WhereComplete(s) == SelectSeq(s, Complete)

\* a build that stores the embedding together with the row
NumberRowsEmbedded(s) ==
  {[ticket_id |-> i, source |-> s[i].source, subject |-> s[i].subject,
    body |-> s[i].body, answer |-> s[i].answer, type |-> s[i].type,
    priority |-> s[i].priority,
    text_embedding |-> Embed(Content(s[i].subject, s[i].body))] : i \in 1..Len(s)}

\* a numbering that starts at 0
NumberRowsZeroBased(s) ==
  {[ticket_id |-> i - 1, source |-> s[i].source, subject |-> s[i].subject,
    body |-> s[i].body, answer |-> s[i].answer, type |-> s[i].type,
    priority |-> s[i].priority, text_embedding |-> NullVec] : i \in 1..Len(s)}

\* a numbering that restarts in every branch of the union
NumberRowsPerSource(s) ==
  {[ticket_id |-> Cardinality({j \in 1..i : s[j].source = s[i].source}),
    source |-> s[i].source, subject |-> s[i].subject,
    body |-> s[i].body, answer |-> s[i].answer, type |-> s[i].type,
    priority |-> s[i].priority, text_embedding |-> NullVec] : i \in 1..Len(s)}

\* SELECT ROW_NUMBER() OVER() AS ticket_id, source, subject, ... over the rows the WHERE kept
NumberRows(s) ==
  {[ticket_id |-> i, source |-> s[i].source, subject |-> s[i].subject,
    body |-> s[i].body, answer |-> s[i].answer, type |-> s[i].type,
    priority |-> s[i].priority, text_embedding |-> NullVec] : i \in 1..Len(s)}

\* a build that numbers the rows of union_all and filters the numbered rows
TicketsFromNumberFirst(s) ==
  [exists |-> TRUE, cols |-> {},
   rows |-> {r \in NumberRows(s) : Complete(r)}]

\* a build that inserts the new rows after the rows the table already holds
TicketsFromAppend(s) ==
  [exists |-> TRUE, cols |-> tickets.cols,
   rows |-> tickets.rows \cup
              {[r EXCEPT !.ticket_id = @ + Cardinality(tickets.rows)] :
                 r \in NumberRows(WhereComplete(s))}]

\* CREATE OR REPLACE TABLE tickets AS ... , for the stream in the engine's order
TicketsFrom(s) ==
  [exists |-> TRUE, cols |-> {}, rows |-> NumberRows(WhereComplete(s))]

Reorder(u, ord) == [i \in 1..Len(u) |-> u[ord[i]]]

(***************************************************************************)
(* products_builder.py.  File names, URIs and the GCS prefix are sequences *)
(* of characters.                                                          *)
(***************************************************************************)
GsB == <<"g", "s", ":", "/", "/", "b">>
ImgA == <<"a", ".", "j", "p", "g">>
ImgOther == <<"o", ".", "j", "p", "g">>
CustomUri == GsB \o <<"/", "c", ".", "j", "p", "g">>

\* config.GCS_Images_URI as deployed: unset, without and with the trailing slash
Prefixes == {<<>>, GsB, GsB \o <<"/">>}

\* a prefix used as configured, with no "/" appended
NormalizeAsIs(prefix) == prefix

_normalize_gcs_prefix(prefix) ==
  IF prefix = <<>> THEN prefix
  ELSE IF prefix[Len(prefix)] # "/" THEN prefix \o <<"/">>
  ELSE prefix

\* ML.GENERATE_EMBEDDING of the multimodal model over the object behind a uri
EmbedImg(uri) == <<"image", uri>>

Product(i, t, d, img, u) ==
  [product_id |-> i, title |-> t, description |-> d, image |-> img, uri |-> u,
   text_embedding |-> NullVec, img_embedding |-> NullVec,
   customer_comments |-> <<"nice">>]

\* catalog rows: with an image, with a uri set by hand, with an empty and with a null image
ProductChoices(i) ==
  {Product(i, "Bag", "Red leather handbag", ImgA, NullStr),
   Product(i, NULL, "Blue mug", ImgOther, CustomUri),
   Product(i, "Cap", NULL, <<>>, NullStr),
   Product(i, "Pen", "Blue pen", NullStr, NullStr)}

\* the products table as loaded: the uri column is there when some row has a uri
RawProducts(rows) ==
  [exists |-> TRUE,
   cols |-> IF \E r \in rows : r.uri # NullStr THEN {"uri"} ELSE {},
   rows |-> rows]

\* catalogs of up to n rows with ids 1..k
Catalogs(n) ==
  UNION {{RawProducts({f[i] : i \in 1..k}) :
            f \in {g \in [1..k -> UNION {ProductChoices(i) : i \in 1..k}] :
                     \A i \in 1..k : g[i].product_id = i}} : k \in 0..n}

\* products_builder.build_text_embeddings, the UPDATE
BackfillProductsText(t) ==
  UpdateFrom(t, "product_id", "text_embedding",
             TextSource(t, "product_id", "title", "description"))

CanBackfillProductsText(t) ==
  CanUpdate(t, "product_id", "text_embedding",
            TextSource(t, "product_id", "title", "description"))

\* a URI fill without the `uri IS NULL` test
FillUriOverwrite(t, prefix) ==
  [t EXCEPT !.rows =
     {IF r.image # NullStr /\ r.image # <<>>
      THEN [r EXCEPT !.uri = prefix \o r.image] ELSE r : r \in @}]

\* UPDATE t SET uri = CONCAT(prefix, image) WHERE uri IS NULL AND image IS NOT NULL AND image != ''
FillUri(t, prefix) ==
  [t EXCEPT !.rows =
     {IF r.uri = NullStr /\ r.image # NullStr /\ r.image # <<>>
      THEN [r EXCEPT !.uri = prefix \o r.image] ELSE r : r \in @}]

\* an image subquery without the WHERE on uri
ImageSourceAllRows(t) ==
  {[id |-> r.product_id, embedding |-> EmbedImg(r.uri)] : r \in t.rows}

\* SELECT id, embedding FROM ML.GENERATE_EMBEDDING(... WHERE uri IS NOT NULL AND uri != '')
ImageSource(t) ==
  {[id |-> r.product_id, embedding |-> EmbedImg(r.uri)] :
     r \in {q \in t.rows : q.uri # NullStr /\ q.uri # <<>>}}

\* an image step that recreates products from the rows it embedded
BackfillImagesRecreate(t) ==
  [exists |-> TRUE, cols |-> {"img_embedding"},
   rows |-> {[r EXCEPT !.img_embedding = EmbedImg(r.uri), !.uri = NullStr,
                       !.text_embedding = NullVec] :
               r \in {q \in t.rows : q.uri # NullStr /\ q.uri # <<>>}}]

\* build_image_embeddings, the last UPDATE
BackfillImages(t) == UpdateFrom(t, "product_id", "img_embedding", ImageSource(t))

CanBackfillImages(t) ==
  /\ "uri" \in t.cols
  /\ CanUpdate(t, "product_id", "img_embedding", ImageSource(t))

vars == <<forms, chats, emails, audio, call_object_table, call_transcriptions,
          tickets, products, gcs_prefix, pc, log, stream, fills, replaced,
          hc, aa, dash, esc, norm>>

sources == <<forms, chats, emails, audio>>
pages == <<hc, aa, dash, esc, norm>>
calls == <<call_object_table, call_transcriptions>>

TicketRuns == {"T1", "T2"}
ProductRuns == {"P"}
Runs == TicketRuns \cup ProductRuns

\* an orchestrator that builds the union before it transcribes
TicketStagesBuildFirst ==
  <<"create_call_object_table", "build_tickets_table", "transcribe_calls_to_table",
    "ensure_text_embedding", "backfill_text_embedding">>

\* run_tickets_builder: the statements in program order
TicketStages ==
  <<"create_call_object_table", "transcribe_calls_to_table", "build_tickets_table",
    "ensure_text_embedding", "backfill_text_embedding">>

\* an orchestrator that embeds the images before it ensures and fills uri
ProductStagesImageFirst(prefix) ==
  <<"p_ensure_text_embedding", "p_backfill_text_embedding",
    "ensure_img_embedding", "backfill_img_embedding", "ensure_uri">>
    \o (IF _normalize_gcs_prefix(prefix) # <<>> THEN <<"fill_uri">> ELSE <<>>)

\* the SQL statement each step of run_products_builder issues
ProductStatementKind ==
  [p_ensure_text_embedding |-> "ALTER", p_backfill_text_embedding |-> "UPDATE",
   ensure_uri |-> "ALTER", fill_uri |-> "UPDATE",
   ensure_img_embedding |-> "ALTER", backfill_img_embedding |-> "UPDATE"]

\* an orchestrator that issues the URI fill whatever the prefix
ProductStagesAlwaysFill(prefix) ==
  <<"p_ensure_text_embedding", "p_backfill_text_embedding", "ensure_uri", "fill_uri",
    "ensure_img_embedding", "backfill_img_embedding">>

\* run_products_builder: the statements in program order; `if gcs_prefix:` guards the URI fill
ProductStages(prefix) ==
  <<"p_ensure_text_embedding", "p_backfill_text_embedding", "ensure_uri">>
    \o (IF _normalize_gcs_prefix(prefix) # <<>> THEN <<"fill_uri">> ELSE <<>>)
    \o <<"ensure_img_embedding", "backfill_img_embedding">>

StagesOf(r) == IF r \in TicketRuns THEN TicketStages ELSE ProductStages(gcs_prefix)

IndexOf(seq, x) == CHOOSE i \in 1..Len(seq) : seq[i] = x

\* the statement after stage s of invocation r, "done" after the last
StageAfter(r, s) ==
  LET st == StagesOf(r) i == IndexOf(st, s)
  IN IF i = Len(st) THEN "done" ELSE st[i + 1]

Running(r) == pc[r] \notin {"idle", "done", "failed"}

\* bq.run_query: job.result() returns, or raises and the exception leaves the orchestrator
Returned(r, s) ==
  /\ pc' = [pc EXCEPT ![r] = StageAfter(r, s)]
  /\ log' = [log EXCEPT ![r] = Append(@, [stmt |-> s, res |-> "ok"])]

\* a run_query that swallows the exception: the orchestrator goes on
RaisedSwallowed(r, s, why) ==
  /\ pc' = [pc EXCEPT ![r] = StageAfter(r, s)]
  /\ log' = [log EXCEPT ![r] = Append(@, [stmt |-> s, res |-> why])]

Raised(r, s, why) ==
  /\ pc' = [pc EXCEPT ![r] = "failed"]
  /\ log' = [log EXCEPT ![r] = Append(@, [stmt |-> s, res |-> why])]

\* the history of the latest runs of one backfill with no other backfill, rebuild or
\* external write in between: the rows before and after each run
Filled(key, before, after) ==
  LET e == [key |-> key, before |-> before.rows, after |-> after.rows]
  IN IF fills # <<>> /\ fills[Len(fills)].key = key
     THEN <<fills[Len(fills)], e>>
     ELSE <<e>>

\* raw source tables holding at most n records together
InitSources(n) ==
  /\ forms \in BoundedSeq(FormRecs, n)
  /\ chats \in BoundedSeq(RawChats, n)
  /\ emails \in BoundedSeq(RawEmails, n)
  /\ audio \in BoundedSeq(AudioObjs, n)
  /\ Len(forms) + Len(chats) + Len(emails) + Len(audio) <= n

InitRuns ==
  /\ pc = [r \in Runs |-> "idle"]
  /\ log = [r \in Runs |-> <<>>]

\* no page of the app has been used
PagesIdle ==
  /\ hc = <<>>
  /\ aa = [search_df |-> <<"None">>, done |-> <<>>]
  /\ dash = [raw_risk |-> <<>>, bucketed |-> <<>>, result |-> <<>>, ran |-> FALSE]
  /\ esc = [text |-> <<>>, safe |-> <<>>, literal |-> <<>>, at |-> "typed"]
  /\ norm = [prefix |-> <<>>, first |-> <<>>, second |-> <<>>, calls |-> 0]

\* nothing built yet
InitUnbuilt ==
  /\ call_object_table = [exists |-> FALSE]
  /\ call_transcriptions = [exists |-> FALSE, rows |-> <<>>]
  /\ tickets = NoTable
  /\ stream = <<>>
  /\ fills = <<>>
  /\ replaced = 0
  /\ PagesIdle
  /\ InitRuns

\* a fresh dataset holding the raw sources of the tickets pipeline
Init ==
  /\ InitSources(MaxRecords)
  /\ InitUnbuilt
  /\ products = NoTable
  /\ gcs_prefix = <<>>

(***************************************************************************)
(* run_tickets_builder, one action per statement.                          *)
(***************************************************************************)
\* a single-flight guard over all invocations
MayStartSingleFlight(r) == \A q \in Runs : ~Running(q)

\* Home.py, the admin buttons: nothing in the handler checks for a run in progress
MayStart(r) == ~Running(r)

\* any statement: the remote job fails, nothing is written
RemoteFail(r) ==
  /\ Running(r)
  /\ Raised(r, pc[r], "remote_error")
  /\ UNCHANGED <<sources, calls, tickets, products, gcs_prefix, stream, replaced, pages, fills>>

CreateCallObjectTable(r) ==
  /\ pc[r] = "create_call_object_table"
  /\ call_object_table' = [exists |-> TRUE]
  /\ Returned(r, "create_call_object_table")
  /\ UNCHANGED <<sources, call_transcriptions, tickets, products, gcs_prefix, stream, replaced, pages, fills>>

\* ML.TRANSCRIBE over the object table: one row per audio object
TranscribeCalls(r) ==
  /\ pc[r] = "transcribe_calls_to_table"
  /\ IF call_object_table.exists
     THEN /\ call_transcriptions' =
               [exists |-> TRUE, rows |-> [i \in 1..Len(audio) |-> "transcript"]]
          /\ Returned(r, "transcribe_calls_to_table")
     ELSE /\ Raised(r, "transcribe_calls_to_table", "sql_error")
          /\ UNCHANGED call_transcriptions
  /\ UNCHANGED <<sources, call_object_table, tickets, products, gcs_prefix, stream, replaced, pages, fills>>

BuildTickets(r) ==
  /\ pc[r] = "build_tickets_table"
  /\ IF call_transcriptions.exists
     THEN /\ \E xc \in [1..Len(chats) -> ExtractOut],
                xe \in [1..Len(emails) -> ExtractOut],
                xk \in [1..Len(call_transcriptions.rows) -> ExtractOut] :
               LET u == UnionAll(forms, xc, xe, xk)
               IN \E ord \in Permutations(1..Len(u)) :
                    /\ stream' = Reorder(u, ord)
                    /\ tickets' = TicketsFrom(Reorder(u, ord))
          /\ fills' = <<>>
          /\ replaced' = Cardinality({row \in tickets.rows :
                                        row.source = "form" /\ row.text_embedding # NullVec})
          /\ Returned(r, "build_tickets_table")
     ELSE /\ Raised(r, "build_tickets_table", "sql_error")
          /\ UNCHANGED <<tickets, stream, replaced, fills>>
  /\ UNCHANGED <<sources, calls, products, gcs_prefix, pages>>

EnsureTextEmbedding(r) ==
  /\ pc[r] = "ensure_text_embedding"
  /\ IF tickets.exists
     THEN /\ tickets' = AddColumn(tickets, "text_embedding")
          /\ Returned(r, "ensure_text_embedding")
     ELSE /\ Raised(r, "ensure_text_embedding", "sql_error")
          /\ UNCHANGED tickets
  /\ UNCHANGED <<sources, calls, products, gcs_prefix, stream, replaced, pages, fills>>

BackfillTextEmbedding(r) ==
  /\ pc[r] = "backfill_text_embedding"
  /\ IF CanBackfillTickets(tickets)
     THEN /\ tickets' = BackfillTickets(tickets)
          /\ fills' = Filled("tickets.text_embedding", tickets, BackfillTickets(tickets))
          /\ Returned(r, "backfill_text_embedding")
     ELSE /\ Raised(r, "backfill_text_embedding", "sql_error")
          /\ UNCHANGED <<tickets, fills>>
  /\ UNCHANGED <<sources, calls, products, gcs_prefix, stream, replaced, pages>>

TicketStep(r) ==
  \/ CreateCallObjectTable(r)
  \/ TranscribeCalls(r)
  \/ BuildTickets(r)
  \/ EnsureTextEmbedding(r)
  \/ BackfillTextEmbedding(r)

(***************************************************************************)
(* run_products_builder, one action per statement.                         *)
(***************************************************************************)
\* ALTER TABLE products ADD COLUMN IF NOT EXISTS col, at stage s
EnsureProductColumn(r, s, col) ==
  /\ pc[r] = s
  /\ IF products.exists
     THEN /\ products' = AddColumn(products, col)
          /\ Returned(r, s)
     ELSE /\ Raised(r, s, "sql_error")
          /\ UNCHANGED products
  /\ UNCHANGED <<sources, calls, tickets, gcs_prefix, stream, replaced, pages, fills>>

BackfillProductText(r) ==
  /\ pc[r] = "p_backfill_text_embedding"
  /\ IF CanBackfillProductsText(products)
     THEN /\ products' = BackfillProductsText(products)
          /\ fills' = Filled("products.text_embedding", products,
                             BackfillProductsText(products))
          /\ Returned(r, "p_backfill_text_embedding")
     ELSE /\ Raised(r, "p_backfill_text_embedding", "sql_error")
          /\ UNCHANGED <<products, fills>>
  /\ UNCHANGED <<sources, calls, tickets, gcs_prefix, stream, replaced, pages>>

FillProductUri(r) ==
  /\ pc[r] = "fill_uri"
  /\ IF products.exists /\ "uri" \in products.cols
     THEN /\ products' = FillUri(products, _normalize_gcs_prefix(gcs_prefix))
          /\ Returned(r, "fill_uri")
     ELSE /\ Raised(r, "fill_uri", "sql_error")
          /\ UNCHANGED products
  /\ UNCHANGED <<sources, calls, tickets, gcs_prefix, stream, replaced, pages, fills>>

BackfillProductImages(r) ==
  /\ pc[r] = "backfill_img_embedding"
  /\ IF CanBackfillImages(products)
     THEN /\ products' = BackfillImages(products)
          /\ fills' = Filled("products.img_embedding", products, BackfillImages(products))
          /\ Returned(r, "backfill_img_embedding")
     ELSE /\ Raised(r, "backfill_img_embedding", "sql_error")
          /\ UNCHANGED <<products, fills>>
  /\ UNCHANGED <<sources, calls, tickets, gcs_prefix, stream, replaced, pages>>

ProductStep(r) ==
  \/ EnsureProductColumn(r, "p_ensure_text_embedding", "text_embedding")
  \/ BackfillProductText(r)
  \/ EnsureProductColumn(r, "ensure_uri", "uri")
  \/ FillProductUri(r)
  \/ EnsureProductColumn(r, "ensure_img_embedding", "img_embedding")
  \/ BackfillProductImages(r)

(***************************************************************************)
(* One session: Streamlit runs one script at a time per session, so an     *)
(* admin button of the session starts a builder only after the previous    *)
(* one returned or raised.                                                 *)
(***************************************************************************)
Start(r) ==
  /\ MayStart(r)
  /\ \A q \in Runs : ~Running(q)
  /\ pc' = [pc EXCEPT ![r] = StagesOf(r)[1]]
  /\ log' = [log EXCEPT ![r] = <<>>]
  /\ UNCHANGED <<sources, calls, tickets, products, gcs_prefix, stream, replaced, pages, fills>>

Next ==
  \/ Start("T1")
  \/ RemoteFail("T1")
  \/ TicketStep("T1")

Spec == Init /\ [][Next]_vars

(***************************************************************************)
(* One session with both admin buttons, "Tickets Table" and "Products      *)
(* Table", over a small dataset.                                           *)
(***************************************************************************)
InitO ==
  /\ forms = <<LoginRec>> /\ chats = <<>> /\ emails = <<>> /\ audio = <<>>
  /\ InitUnbuilt
  /\ products \in {RawProducts({Product(1, "Bag", "Red leather handbag", ImgA, NullStr)}),
                   RawProducts({Product(1, NULL, "Blue mug", ImgOther, CustomUri)})}
  /\ gcs_prefix \in Prefixes

NextO ==
  \/ Start("T1")
  \/ Start("P")
  \/ RemoteFail("T1")
  \/ RemoteFail("P")
  \/ TicketStep("T1")
  \/ ProductStep("P")

SpecO == InitO /\ [][NextO]_vars

(***************************************************************************)
(* Two sessions: each admin may press "Tickets Table" while the other      *)
(* session's run is in progress.                                           *)
(***************************************************************************)
StartC(r) ==
  /\ MayStart(r)
  /\ pc' = [pc EXCEPT ![r] = StagesOf(r)[1]]
  /\ log' = [log EXCEPT ![r] = <<>>]
  /\ UNCHANGED <<sources, calls, tickets, products, gcs_prefix, stream, replaced, pages, fills>>

InitC ==
  /\ InitSources(MaxConcRecords)
  /\ InitUnbuilt
  /\ products = NoTable
  /\ gcs_prefix = <<>>

NextC ==
  \E r \in TicketRuns :
    \/ StartC(r)
    \/ RemoteFail(r)
    \/ TicketStep(r)

SpecC == InitC /\ [][NextC]_vars

(***************************************************************************)
(* One session pressing "Products Table" over a loaded catalog.            *)
(***************************************************************************)
InitP ==
  /\ forms = <<>> /\ chats = <<>> /\ emails = <<>> /\ audio = <<>>
  /\ InitUnbuilt
  /\ products \in Catalogs(MaxProducts)
  /\ gcs_prefix \in Prefixes

NextP ==
  \/ Start("P")
  \/ RemoteFail("P")
  \/ ProductStep("P")

SpecP == InitP /\ [][NextP]_vars

(***************************************************************************)
(* One session pressing "Tickets Table" while the owner of the forms table *)
(* removes records between rebuilds.                                       *)
(***************************************************************************)
RemoveForm ==
  /\ \A q \in Runs : ~Running(q)
  /\ forms # <<>>
  /\ forms' = SubSeq(forms, 1, Len(forms) - 1)
  /\ UNCHANGED <<chats, emails, audio, calls, tickets, products, gcs_prefix, pc, log,
                 stream, fills, replaced, pages>>

NextR ==
  \/ Start("T1")
  \/ RemoteFail("T1")
  \/ TicketStep("T1")
  \/ RemoveForm

SpecR == Init /\ [][NextR]_vars

(***************************************************************************)
(* The backfill functions called on their own, on a tickets table as       *)
(* build_tickets_table leaves it or on a loaded catalog, with the writes   *)
(* other users of the dataset make between two calls.                      *)
(***************************************************************************)
InitB ==
  /\ chats = <<>> /\ emails = <<>> /\ audio = <<>>
  /\ call_object_table = [exists |-> TRUE]
  /\ fills = <<>>
  /\ replaced = 0
  /\ PagesIdle
  /\ InitRuns
  /\ \/ /\ forms \in BoundedSeq({LoginRec, RefundRec}, MaxRows)
        /\ call_transcriptions = [exists |-> TRUE, rows |-> <<>>]
        /\ stream = UnionAll(forms, <<>>, <<>>, <<>>)
        /\ tickets = TicketsFrom(stream)
        /\ products = NoTable
        /\ gcs_prefix = <<>>
     \/ /\ forms = <<>>
        /\ call_transcriptions = [exists |-> FALSE, rows |-> <<>>]
        /\ stream = <<>>
        /\ tickets = NoTable
        /\ products \in Catalogs(MaxRows)
        /\ gcs_prefix \in Prefixes

\* tickets_builder.build_text_embeddings: ALTER, then UPDATE; either may raise
CallTicketsTextEmbeddings ==
  /\ \E fail \in {"none", "alter", "update"} :
       IF ~tickets.exists \/ fail = "alter"
       THEN UNCHANGED <<tickets, fills>>
       ELSE LET a == AddColumn(tickets, "text_embedding")
            IN IF fail = "update" \/ ~CanBackfillTickets(a)
               THEN tickets' = a /\ UNCHANGED fills
               ELSE /\ tickets' = BackfillTickets(a)
                    /\ fills' = Filled("tickets.text_embedding", a, BackfillTickets(a))
  /\ UNCHANGED <<sources, calls, products, gcs_prefix, pc, log, stream, replaced, pages>>

\* products_builder.build_text_embeddings: ALTER, then UPDATE; either may raise
CallProductsTextEmbeddings ==
  /\ \E fail \in {"none", "alter", "update"} :
       IF ~products.exists \/ fail = "alter"
       THEN UNCHANGED <<products, fills>>
       ELSE LET a == AddColumn(products, "text_embedding")
            IN IF fail = "update" \/ ~CanBackfillProductsText(a)
               THEN products' = a /\ UNCHANGED fills
               ELSE /\ products' = BackfillProductsText(a)
                    /\ fills' = Filled("products.text_embedding", a, BackfillProductsText(a))
  /\ UNCHANGED <<sources, calls, tickets, gcs_prefix, pc, log, stream, replaced, pages>>

\* build_image_embeddings up to its last UPDATE: ensure uri, fill uri, ensure img_embedding
BeforeImageBackfill(t, prefix) ==
  LET u == AddColumn(t, "uri")
      f == IF _normalize_gcs_prefix(prefix) # <<>>
           THEN FillUri(u, _normalize_gcs_prefix(prefix)) ELSE u
  IN AddColumn(f, "img_embedding")

\* products_builder.build_image_embeddings; any of its statements may raise
CallImageEmbeddings ==
  /\ \E fail \in {"none", "ensure_uri", "fill_uri", "ensure_img_embedding",
                  "backfill_img_embedding"} :
       LET u == AddColumn(products, "uri")
           f == IF _normalize_gcs_prefix(gcs_prefix) # <<>>
                THEN FillUri(u, _normalize_gcs_prefix(gcs_prefix)) ELSE u
           a == BeforeImageBackfill(products, gcs_prefix)
       IN IF ~products.exists \/ fail = "ensure_uri"
          THEN UNCHANGED <<products, fills>>
          ELSE IF fail = "fill_uri" THEN products' = u /\ UNCHANGED fills
          ELSE IF fail = "ensure_img_embedding" THEN products' = f /\ UNCHANGED fills
          ELSE IF fail = "backfill_img_embedding" \/ ~CanBackfillImages(a)
          THEN products' = a /\ UNCHANGED fills
          ELSE /\ products' = BackfillImages(a)
               /\ fills' = Filled("products.img_embedding", a, BackfillImages(a))
  /\ UNCHANGED <<sources, calls, tickets, gcs_prefix, pc, log, stream, replaced, pages>>

\* another writer changes the body of a ticket
EditTicket ==
  /\ \E r \in tickets.rows :
       /\ r.body # "Edited"
       /\ tickets' = [tickets EXCEPT !.rows = (@ \ {r}) \cup {[r EXCEPT !.body = "Edited"]}]
  /\ fills' = <<>>
  /\ UNCHANGED <<sources, calls, products, gcs_prefix, pc, log, stream, replaced, pages>>

\* the catalog owner changes the description of a product
EditProduct ==
  /\ \E r \in products.rows :
       /\ r.description # "Edited"
       /\ products' = [products EXCEPT
                         !.rows = (@ \ {r}) \cup {[r EXCEPT !.description = "Edited"]}]
  /\ fills' = <<>>
  /\ UNCHANGED <<sources, calls, tickets, gcs_prefix, pc, log, stream, replaced, pages>>

\* the catalog owner adds a product; its derived columns are null
InsertProduct ==
  /\ products.exists
  /\ Cardinality(products.rows) < MaxRows
  /\ \E r \in ProductChoices(Cardinality(products.rows) + 1) :
       /\ r.uri # NullStr => "uri" \in products.cols
       /\ products' = [products EXCEPT !.rows = @ \cup {r}]
  /\ fills' = <<>>
  /\ UNCHANGED <<sources, calls, tickets, gcs_prefix, pc, log, stream, replaced, pages>>

\* the catalog owner sets, empties or clears the uri of a product
EditProductUri ==
  /\ products.exists /\ "uri" \in products.cols
  /\ \E r \in products.rows, u \in {NullStr, <<>>, CustomUri} :
       /\ r.uri # u
       /\ products' = [products EXCEPT !.rows = (@ \ {r}) \cup {[r EXCEPT !.uri = u]}]
  /\ fills' = <<>>
  /\ UNCHANGED <<sources, calls, tickets, gcs_prefix, pc, log, stream, replaced, pages>>

NextB ==
  \/ CallTicketsTextEmbeddings
  \/ CallProductsTextEmbeddings
  \/ CallImageEmbeddings
  \/ EditTicket
  \/ EditProduct
  \/ InsertProduct

SpecB == InitB /\ [][NextB]_vars

(***************************************************************************)
(* The two products backfills called on a catalog whose owner keeps the uri *)
(* column by hand, no prefix being configured.                             *)
(***************************************************************************)
InitI ==
  /\ forms = <<>> /\ chats = <<>> /\ emails = <<>> /\ audio = <<>>
  /\ InitUnbuilt
  /\ products \in Catalogs(MaxRows)
  /\ gcs_prefix = <<>>

NextI ==
  \/ CallProductsTextEmbeddings
  \/ CallImageEmbeddings
  \/ EditProductUri

SpecI == InitI /\ [][NextI]_vars

(***************************************************************************)
(* Properties.                                                             *)
(***************************************************************************)
KeyCol(key) == IF key = "products.img_embedding" THEN "img_embedding" ELSE "text_embedding"
KeyId(key) == IF key = "tickets.text_embedding" THEN "ticket_id" ELSE "product_id"

\* the value of column col of the row of rows with the given id
CellOf(rows, idcol, id, col) == (CHOOSE q \in rows : q[idcol] = id)[col]

HasRow(rows, idcol, id) == \E q \in rows : q[idcol] = id

NonEmptyText(x) == x # NULL /\ x # ""

IsCompleteRecord(r) ==
  NonEmptyText(r.subject) /\ NonEmptyText(r.body) /\ NonEmptyText(r.answer)

SameRecord(x, r) ==
  /\ x.source = r.source /\ x.subject = r.subject /\ x.body = r.body
  /\ x.answer = r.answer /\ x.type = r.type /\ x.priority = r.priority

\* a run of a backfill left the vector of every row that had one as it was
KeepsPopulated(e) ==
  \A r \in e.before :
    r[KeyCol(e.key)] # NullVec =>
      /\ HasRow(e.after, KeyId(e.key), r[KeyId(e.key)])
      /\ CellOf(e.after, KeyId(e.key), r[KeyId(e.key)], KeyCol(e.key)) = r[KeyCol(e.key)]

\* C1: a backfill run (tickets text, products text, products image) writes the
\* embedding only where it is null: every row whose embedding was non-null before
\* the run holds exactly that vector after it, whatever happened to its source text.
C1_PopulatedRowsKept == \A i \in 1..Len(fills) : KeepsPopulated(fills[i])

C3_CompletenessGate ==
  /\ \A r \in tickets.rows :
       NonEmptyText(r.subject) /\ NonEmptyText(r.body) /\ NonEmptyText(r.answer)
  /\ \A i \in 1..Len(stream) :
       ~IsCompleteRecord(stream[i]) => \A r \in tickets.rows : ~SameRecord(stream[i], r)

\* an extractor result with an empty answer was in the union, next to a kept record
C3_Witness ==
  /\ tickets.exists
  /\ tickets.rows # {}
  /\ \E i \in 1..Len(stream) : stream[i].source # "form" /\ stream[i].answer = ""

\* C4: once run_tickets_builder has completed without error, every row of tickets
\* has a non-null text_embedding, the embedding of COALESCE(subject,'') ' '
\* COALESCE(body,'') of that row of the newly built table.
C4_EmbeddedAfterRun ==
  \A run \in TicketRuns :
    pc[run] = "done" =>
      /\ tickets.exists
      /\ "text_embedding" \in tickets.cols
      /\ Cardinality(tickets.rows) = Len(SelectSeq(stream, IsCompleteRecord))
      /\ \A r \in tickets.rows :
           /\ r.text_embedding # NullVec
           /\ r.text_embedding =
                <<"text", (IF r.subject = NULL THEN "" ELSE r.subject) \o " "
                            \o (IF r.body = NULL THEN "" ELSE r.body)>>

\* a completed run over two rows with different texts
C4_Witness ==
  /\ pc["T1"] = "done"
  /\ \E r, q \in tickets.rows : r.text_embedding # q.text_embedding

\* C5 as stated: ticket_id is the position of the record in the concatenated
\* stream before the completeness filter is applied.
C5_IdsOverUnfilteredStream ==
  tickets.exists =>
    \A r \in tickets.rows :
      /\ r.ticket_id \in 1..Len(stream)
      /\ SameRecord(stream[r.ticket_id], r)

\* C5 amended: ticket_id is a dense 1-based sequence over the records that pass
\* the completeness filter: the filter is applied first and the surviving rows are
\* numbered 1..N in the engine's order.
C5_IdsOverSurvivingRows ==
  tickets.exists =>
    LET kept == SelectSeq(stream, IsCompleteRecord)
    IN /\ {r.ticket_id : r \in tickets.rows} = 1..Len(kept)
       /\ \A r \in tickets.rows : SameRecord(kept[r.ticket_id], r)

\* a dropped record came before a surviving one in the stream
C5_Witness ==
  /\ tickets.exists
  /\ \E i, j \in 1..Len(stream) :
       i < j /\ ~IsCompleteRecord(stream[i]) /\ IsCompleteRecord(stream[j])

Tables == <<call_object_table, call_transcriptions, tickets, products>>

\* C6: in both orchestrators a failing statement ends the invocation: it is the
\* last statement the invocation issues, no statement is issued twice, and the
\* failing step leaves every table as the earlier stages wrote it.
C6_FailFast ==
  [][\A r \in Runs :
       /\ \A i \in 1..Len(log'[r]) : log'[r][i].res # "ok" => i = Len(log'[r])
       /\ \A i, j \in 1..Len(log'[r]) : i # j => log'[r][i].stmt # log'[r][j].stmt
       /\ (log'[r] # log[r] /\ log'[r] # <<>> /\ log'[r][Len(log'[r])].res # "ok")
            => (pc'[r] = "failed" /\ Tables' = Tables)
       /\ pc[r] = "failed"
            => \/ pc'[r] = "failed" /\ log'[r] = log[r]
               \/ log'[r] = <<>>]_vars

\* both orchestrators failed after an earlier stage had written its table
C6_Witness ==
  /\ pc["T1"] = "failed"
  /\ Len(log["T1"]) = 4
  /\ tickets.exists /\ tickets.rows # {} /\ "text_embedding" \notin tickets.cols
  /\ pc["P"] = "failed"
  /\ Len(log["P"]) >= 3
  /\ "text_embedding" \in products.cols

ExpectedTicketOrder ==
  <<"create_call_object_table", "transcribe_calls_to_table", "build_tickets_table",
    "ensure_text_embedding", "backfill_text_embedding">>

\* C7: run_tickets_builder issues create object table, transcribe, build tickets,
\* ensure column, backfill in this order, each after the previous one returned: the
\* build is issued only after this invocation's transcription returned and the
\* backfill only after this invocation's ALTER returned.
C7_StagesInOrder ==
  \A r \in TicketRuns :
    /\ Len(log[r]) <= Len(ExpectedTicketOrder)
    /\ \A i \in 1..Len(log[r]) :
         /\ log[r][i].stmt = ExpectedTicketOrder[i]
         /\ i < Len(log[r]) => log[r][i].res = "ok"
    /\ Running(r) => pc[r] = ExpectedTicketOrder[Len(log[r]) + 1]

C7_Witness ==
  /\ pc["T1"] = "done"
  /\ Len(log["T1"]) = 5
  /\ tickets.rows # {}

\* a backfill run is a resumption when the column held both null and populated cells
MixedBefore(e) ==
  /\ \E r \in e.before : r[KeyCol(e.key)] = NullVec
  /\ \E r \in e.before : r[KeyCol(e.key)] # NullVec

\* the rows an image backfill has a uri for; a text backfill embeds every row
Embeddable(e, r) ==
  e.key = "products.img_embedding" => (r.uri # NullStr /\ r.uri # <<>>)

\* C8: re-running a backfill over a column holding null and populated cells fills
\* every null cell and leaves every populated cell as it was.
C8_ResumeIsSafe ==
  \A i \in 1..Len(fills) :
    MixedBefore(fills[i]) =>
      /\ KeepsPopulated(fills[i])
      /\ \A r \in fills[i].before :
           (r[KeyCol(fills[i].key)] = NullVec /\ Embeddable(fills[i], r)) =>
             CellOf(fills[i].after, KeyId(fills[i].key), r[KeyId(fills[i].key)],
                    KeyCol(fills[i].key)) # NullVec

\* C9: nothing serializes rebuilds: whenever a session runs no rebuild it can start
\* one, whatever the other session's rebuild is doing.
C9_NoSerialization ==
  \A r \in TicketRuns : ~Running(r) => ENABLED StartC(r)

\* one of two overlapping rebuilds failed although no remote job failed
C9_Witness ==
  /\ pc["T1"] = "done"
  /\ pc["T2"] = "failed"
  /\ log["T2"][Len(log["T2"])] = [stmt |-> "backfill_text_embedding", res |-> "sql_error"]
  /\ \A i \in 1..Len(log["T1"]) : log["T1"][i].res = "ok"

\* C10: between the replacement of the table and the end of the backfill UPDATE,
\* tickets holds the new rows and no row has a text_embedding.
C10_MidRebuild ==
  \A r \in TicketRuns :
    pc[r] \in {"ensure_text_embedding", "backfill_text_embedding"} =>
      /\ tickets.exists
      /\ Cardinality(tickets.rows) = Len(SelectSeq(stream, IsCompleteRecord))
      /\ \A row \in tickets.rows : row.text_embedding = NullVec
      /\ pc[r] = "ensure_text_embedding" => "text_embedding" \notin tickets.cols

C10_Witness ==
  /\ pc["T1"] = "backfill_text_embedding"
  /\ tickets.rows # {}
  /\ "text_embedding" \in tickets.cols
  /\ \A row \in tickets.rows : row.text_embedding = NullVec

\* the step is invocation r's statement s returning without error
StatementReturned(r, s) == log'[r] = Append(log[r], [stmt |-> s, res |-> "ok"])

ProductIds(t) == {r.product_id : r \in t.rows}

\* C11: no statement of the products builder changes a uri that is already set:
\* a product row with a non-null uri has the same uri after every step of every
\* run, whatever its image and whatever the configured prefix.
C11_UriWriteOnce ==
  [][\A r \in products.rows :
       r.uri # NullStr =>
         /\ HasRow(products'.rows, "product_id", r.product_id)
         /\ CellOf(products'.rows, "product_id", r.product_id, "uri") = r.uri]_vars

\* a second run passed its URI fill over a row loaded with a uri of its own
C11_Witness ==
  /\ pc["P"] = "ensure_img_embedding"
  /\ gcs_prefix # <<>>
  /\ log["P"][Len(log["P"])] = [stmt |-> "fill_uri", res |-> "ok"]
  /\ \E r \in products.rows :
       /\ r.uri = CustomUri /\ r.image = ImgOther
       /\ r.img_embedding = <<"image", CustomUri>>

\* the configured prefix with a "/" at its end
WithSlash(prefix) == IF prefix[Len(prefix)] = "/" THEN prefix ELSE prefix \o <<"/">>

HasImage(r) == r.image # NullStr /\ r.image # <<>>

\* C12: with a non-empty prefix the URI fill sets uri to the prefix, ended by one
\* "/", followed by the image filename for exactly the rows with a null uri and a
\* non-null, non-empty image; every other row keeps its uri, so a row with a null
\* or empty image and a null uri keeps a null uri.
C12_UriFill ==
  [][StatementReturned("P", "fill_uri") =>
       /\ gcs_prefix # <<>>
       /\ ProductIds(products') = ProductIds(products)
       /\ \A r \in products.rows :
            CellOf(products'.rows, "product_id", r.product_id, "uri") =
              IF r.uri = NullStr /\ HasImage(r)
              THEN WithSlash(gcs_prefix) \o r.image
              ELSE r.uri]_vars

\* a fill under the prefix without trailing slash: one row filled, the rows with a
\* null and with an empty image still without uri
C12_Witness ==
  /\ pc["P"] = "ensure_img_embedding"
  /\ gcs_prefix = GsB
  /\ \E r \in products.rows : r.image = ImgA /\ r.uri = GsB \o <<"/">> \o ImgA
  /\ \E r \in products.rows : r.image = NullStr /\ r.uri = NullStr
  /\ \E r \in products.rows : r.image = <<>> /\ r.uri = NullStr

EnsureStatements ==
  [ensure_text_embedding |-> "text_embedding", p_ensure_text_embedding |-> "text_embedding",
   ensure_uri |-> "uri", ensure_img_embedding |-> "img_embedding"]

TableOf(r) == IF r \in ProductRuns THEN products ELSE tickets

\* C13: an ensure-column statement on an existing table returns without error, adds
\* the column when it is absent and changes nothing when it is present: the
\* schema stays as the first call left it and every stored value stays.
C13_EnsureColumn ==
  [][\A r \in Runs : \A s \in DOMAIN EnsureStatements :
       /\ StatementReturned(r, s) =>
            /\ TableOf(r)'.cols = TableOf(r).cols \cup {EnsureStatements[s]}
            /\ EnsureStatements[s] \in TableOf(r).cols => TableOf(r)' = TableOf(r)
            /\ \A c \in TableOf(r).cols : c \in TableOf(r)'.cols
       /\ (pc[r] = s /\ TableOf(r).exists /\ ~StatementReturned(r, s)) =>
            pc'[r] # "failed" \/ log'[r][Len(log'[r])].res = "remote_error"]_vars

\* the second run's ensure of img_embedding passed over a populated column
C13_Witness ==
  /\ pc["P"] = "backfill_img_embedding"
  /\ log["P"][Len(log["P"])] = [stmt |-> "ensure_img_embedding", res |-> "ok"]
  /\ \E r \in products.rows : r.img_embedding # NullVec

SourceOfTable ==
  [forms |-> "form", chats |-> "chat", emails |-> "email", call_transcriptions |-> "call"]

\* C14: every row of tickets has source form, chat, email or call, and it is the
\* kind of the raw table its record was read from.
C14_SourceTagging ==
  tickets.exists =>
    LET kept == SelectSeq(stream, IsCompleteRecord)
    IN \A r \in tickets.rows :
         /\ r.source \in {"form", "chat", "email", "call"}
         /\ r.ticket_id \in 1..Len(kept)
         /\ r.source = SourceOfTable[kept[r.ticket_id].origin[1]]

\* a table holding a call row next to a row of another source
C14_Witness ==
  /\ tickets.exists
  /\ \E r, q \in tickets.rows : r.source = "call" /\ q.source \in {"chat", "email"}

FormRows == {r \in tickets.rows : r.source = "form"}

SameFields(x, r) ==
  /\ x.subject = r.subject /\ x.body = r.body /\ x.answer = r.answer
  /\ x.type = r.type /\ x.priority = r.priority

\* C15: when every raw form has non-empty subject, body and answer, the form rows
\* of tickets are the raw forms: as many rows as forms, and each raw form appears
\* in as many form rows as it appears in forms, its five fields unchanged.
C15_FormsPassThrough ==
  (tickets.exists /\ \A i \in 1..Len(forms) : IsCompleteRecord(forms[i])) =>
    /\ Cardinality(FormRows) = Len(forms)
    /\ \A i \in 1..Len(forms) :
         Cardinality({r \in FormRows : SameFields(forms[i], r)}) =
           Cardinality({j \in 1..Len(forms) : forms[j] = forms[i]})

\* two forms, one of them with a type outside the catalogue and a null priority
C15_Witness ==
  /\ tickets.exists
  /\ Len(forms) = 2
  /\ \E r \in FormRows : r.type = "not-a-type" /\ r.priority = NULL
  /\ \E r \in FormRows : r.type # "not-a-type"

OneFormOnly ==
  /\ Len(forms) = 1 /\ IsCompleteRecord(forms[1])
  /\ chats = <<>> /\ emails = <<>> /\ audio = <<>>

LastReturned(r, s) ==
  log[r] # <<>> /\ log[r][Len(log[r])] = [stmt |-> s, res |-> "ok"]

\* C16: with one complete form and nothing else, the rebuilt table has exactly one
\* row, with ticket_id 1, source form and the form's five fields; the row has no
\* text_embedding after build_tickets_table and has one after build_text_embeddings.
C16_SingleForm ==
  (OneFormOnly /\ tickets.exists) =>
    /\ Cardinality(tickets.rows) = 1
    /\ \A r \in tickets.rows :
         /\ r.ticket_id = 1
         /\ r.source = "form"
         /\ SameFields(forms[1], r)
         /\ LastReturned("T1", "build_tickets_table") => r.text_embedding = NullVec
         /\ LastReturned("T1", "backfill_text_embedding") => r.text_embedding # NullVec

C16_Witness ==
  /\ OneFormOnly
  /\ LastReturned("T1", "backfill_text_embedding")
  /\ \E r \in tickets.rows : r.ticket_id = 1 /\ r.text_embedding # NullVec

\* the records of the stream read from table tbl
FromTable(s, tbl) == {i \in 1..Len(s) : s[i].origin[1] = tbl}

\* C17: when build_tickets_table returns, tickets is a new table: no derived column,
\* no embedding, and exactly the complete records of a stream read from forms,
\* chats, emails and call_transcriptions as they are now, numbered from 1; nothing
\* of the table it replaced is kept.
C17_Wholesale ==
  [][StatementReturned("T1", "build_tickets_table") =>
       /\ tickets'.exists /\ tickets'.cols = {}
       /\ \A r \in tickets'.rows : r.text_embedding = NullVec
       /\ Len(stream') = Len(forms) + Len(chats) + Len(emails) + Len(call_transcriptions.rows)
       /\ Cardinality(FromTable(stream', "forms")) = Len(forms)
       /\ Cardinality(FromTable(stream', "chats")) = Len(chats)
       /\ Cardinality(FromTable(stream', "emails")) = Len(emails)
       /\ \A i \in FromTable(stream', "forms") :
            /\ stream'[i].origin[2] \in 1..Len(forms)
            /\ SameFields(forms[stream'[i].origin[2]], stream'[i])
       /\ LET kept == SelectSeq(stream', IsCompleteRecord)
          IN /\ {r.ticket_id : r \in tickets'.rows} = 1..Len(kept)
             /\ Cardinality(tickets'.rows) = Len(kept)
             /\ \A r \in tickets'.rows : SameRecord(kept[r.ticket_id], r)]_vars

\* a rebuild after the forms were removed replaced a table of embedded form rows
C17_Witness ==
  /\ LastReturned("T1", "build_tickets_table")
  /\ replaced > 0
  /\ forms = <<>>
  /\ FormRows = {}
  /\ \A r \in tickets.rows : r.text_embedding = NullVec

\* C20: the union keeps duplicates: the stream has one record per raw record of
\* the four sources, and tickets has one row per complete record of it, so equal
\* complete records give as many rows as there are records.
C20_NoDedup ==
  tickets.exists =>
    /\ Len(stream) = Len(forms) + Len(chats) + Len(emails) + Len(call_transcriptions.rows)
    /\ Cardinality(tickets.rows) =
         Cardinality({i \in 1..Len(stream) : IsCompleteRecord(stream[i])})
    /\ Cardinality(FormRows) =
         Cardinality({i \in 1..Len(forms) : IsCompleteRecord(forms[i])})

\* two equal complete forms gave two rows
C20_Witness ==
  /\ tickets.exists
  /\ Len(forms) = 2 /\ forms[1] = forms[2]
  /\ \E r, q \in FormRows : r.ticket_id # q.ticket_id /\ SameFields(r, q)

\* C18 as stated: the products builder recreates the products table the way the
\* tickets builder recreates tickets: a completed run issued a CREATE OR REPLACE.
C18_ProductsRecreated ==
  LastReturned("P", "backfill_img_embedding") =>
    \E i \in 1..Len(log["P"]) : ProductStatementKind[log["P"][i].stmt] = "CREATE OR REPLACE"

BaseColumns == {"product_id", "title", "description", "image", "customer_comments"}

\* C18 amended: run_products_builder never drops or recreates products: it issues
\* only ALTER TABLE ADD COLUMN IF NOT EXISTS and UPDATE, so every step keeps the
\* table, its rows and their loaded columns, and keeps every column it has.
C18_ProductsAlteredInPlace ==
  [][/\ \A i \in 1..Len(log'["P"]) :
          ProductStatementKind[log'["P"][i].stmt] \in {"ALTER", "UPDATE"}
     /\ products'.exists = products.exists
     /\ products.cols \subseteq products'.cols
     /\ ProductIds(products') = ProductIds(products)
     /\ Cardinality(products'.rows) = Cardinality(products.rows)
     /\ \A r \in products.rows : \A c \in BaseColumns :
          CellOf(products'.rows, "product_id", r.product_id, c) = r[c]]_vars

\* a completed run over a catalog with a row the image step does not embed
C18_Witness ==
  /\ LastReturned("P", "backfill_img_embedding")
  /\ products.cols = {"text_embedding", "uri", "img_embedding"}
  /\ \E r \in products.rows : r.uri = NullStr /\ r.img_embedding = NullVec
  /\ \E r \in products.rows : r.img_embedding # NullVec

ExpectedProductOrder ==
  <<"p_ensure_text_embedding", "p_backfill_text_embedding", "ensure_uri", "fill_uri",
    "ensure_img_embedding", "backfill_img_embedding">>

\* C19: the statements of a products run are issued in the order ensure
\* text_embedding, text backfill, ensure uri, URI fill, ensure img_embedding, image
\* backfill, each after the previous one returned; so when the image backfill has
\* returned, a row whose uri this run filled holds the embedding of that uri.
C19_ProductOrder ==
  LET issued == [i \in 1..Len(log["P"]) |-> log["P"][i].stmt]
  IN /\ \A i \in 1..Len(issued) :
          /\ \E k \in 1..Len(ExpectedProductOrder) : ExpectedProductOrder[k] = issued[i]
          /\ i < Len(issued) => log["P"][i].res = "ok"
     /\ \A i, j \in 1..Len(issued) :
          i < j => \E k, l \in 1..Len(ExpectedProductOrder) :
                     k < l /\ ExpectedProductOrder[k] = issued[i]
                           /\ ExpectedProductOrder[l] = issued[j]
     /\ gcs_prefix # <<>> =>
          \A i \in 1..Len(issued) : issued[i] = ExpectedProductOrder[i]
     /\ (gcs_prefix # <<>> /\ LastReturned("P", "backfill_img_embedding")) =>
          \A r \in products.rows :
            HasImage(r) => r.uri # NullStr /\ r.img_embedding = <<"image", r.uri>>

\* a first run filled a uri and embedded it
C19_Witness ==
  /\ LastReturned("P", "backfill_img_embedding")
  /\ Len(log["P"]) = 6
  /\ \E r \in products.rows :
       /\ r.image = ImgA /\ r.uri = WithSlash(gcs_prefix) \o ImgA
       /\ r.img_embedding = <<"image", WithSlash(gcs_prefix) \o ImgA>>

\* C21: the completeness gate is the only filter: every record of the stream with
\* non-empty subject, body and answer has its row in tickets, with type and
\* priority as they came, also when they are outside the catalogue, null or empty.
C21_OnlyGate ==
  tickets.exists =>
    \A i \in 1..Len(stream) :
      IsCompleteRecord(stream[i]) =>
        Cardinality({r \in tickets.rows : SameRecord(stream[i], r)}) =
          Cardinality({j \in 1..Len(stream) :
                         [stream[j] EXCEPT !.origin = <<>>] = [stream[i] EXCEPT !.origin = <<>>]})

\* rows with a type outside the catalogue, a null priority, an empty type and a
\* priority outside the catalogue
C21_Witness ==
  /\ tickets.exists
  /\ \E r \in tickets.rows : r.type = "not-a-type" /\ r.priority = NULL
  /\ \E r \in tickets.rows : r.type = "" /\ r.priority = "urgent"

\* C22: the ticket_id values of tickets are pairwise distinct and are exactly 1..N
\* for N rows, so the join t.ticket_id = s.ticket_id of the backfill gives each
\* row exactly one computed embedding.
C22_DenseIds ==
  tickets.exists =>
    /\ \A r, q \in tickets.rows : r.ticket_id = q.ticket_id => r = q
    /\ {r.ticket_id : r \in tickets.rows} = 1..Cardinality(tickets.rows)
    /\ \A r \in tickets.rows :
         Cardinality({q \in tickets.rows : q.ticket_id = r.ticket_id}) = 1

\* two rows of one source and a row of another, ready for the backfill
C22_Witness ==
  /\ pc["T1"] = "backfill_text_embedding"
  /\ Cardinality(tickets.rows) = 2
  /\ \E r, q \in tickets.rows : r.source = "form" /\ q.source # "form"

C26_EmptyPrefix ==
  [][gcs_prefix = <<>> =>
       /\ \A i \in 1..Len(log'["P"]) : log'["P"][i].stmt # "fill_uri"
       /\ \A r \in products.rows :
            CellOf(products'.rows, "product_id", r.product_id, "uri") = r.uri
       /\ StatementReturned("P", "backfill_img_embedding") =>
            /\ [i \in 1..Len(log'["P"]) |-> log'["P"][i].stmt] =
                 <<"p_ensure_text_embedding", "p_backfill_text_embedding", "ensure_uri",
                   "ensure_img_embedding", "backfill_img_embedding">>
            /\ {"uri", "img_embedding"} \subseteq products'.cols
            /\ \A r \in products'.rows :
                 (r.uri # NullStr /\ r.uri # <<>>) => r.img_embedding = <<"image", r.uri>>]_vars

\* a finished run without prefix: the row loaded with a uri is embedded, the row
\* with an image and no uri is left without uri and without embedding
C26_Witness ==
  /\ gcs_prefix = <<>>
  /\ LastReturned("P", "backfill_img_embedding")
  /\ Len(log["P"]) = 5
  /\ \E r \in products.rows : r.uri = CustomUri /\ r.img_embedding = <<"image", CustomUri>>
  /\ \E r \in products.rows : r.image = ImgA /\ r.uri = NullStr /\ r.img_embedding = NullVec

ProductFills == {i \in 1..Len(fills) : fills[i].key \in {"products.text_embedding",
                                                         "products.img_embedding"}}

NoUri(r) == r.uri = NullStr \/ r.uri = <<>>

\* C27: a products backfill UPDATE keeps the rows and their product_id, title,
\* description, image and customer_comments and writes only its own embedding
\* column; the image one leaves img_embedding as it was on every row whose uri is
\* null or empty.
C27_BackfillFrame ==
  \A i \in ProductFills :
    LET e == fills[i] IN
      /\ {r.product_id : r \in e.after} = {r.product_id : r \in e.before}
      /\ Cardinality(e.after) = Cardinality(e.before)
      /\ \A r \in e.before :
           /\ \A c \in BaseColumns \cup {"uri"} :
                CellOf(e.after, "product_id", r.product_id, c) = r[c]
           /\ e.key = "products.img_embedding" =>
                /\ CellOf(e.after, "product_id", r.product_id, "text_embedding") = r.text_embedding
                /\ NoUri(r) =>
                     CellOf(e.after, "product_id", r.product_id, "img_embedding") = r.img_embedding
           /\ e.key = "products.text_embedding" =>
                CellOf(e.after, "product_id", r.product_id, "img_embedding") = r.img_embedding

\* an image backfill embedded one row and passed over a row that holds an
\* embedding and whose uri was emptied or cleared
C27_Witness ==
  /\ fills # <<>>
  /\ fills[Len(fills)].key = "products.img_embedding"
  /\ \E r, q \in fills[Len(fills)].before :
       /\ NoUri(r) /\ r.img_embedding # NullVec
       /\ q.img_embedding = NullVec
       /\ CellOf(fills[Len(fills)].after, "product_id", q.product_id, "img_embedding") # NullVec

(***************************************************************************)
(* The pages of the app.  They read the tables through searches whose      *)
(* outcome is open here: a search raises, returns no row or returns rows.  *)
(* Texts are sequences of characters.                                      *)
(***************************************************************************)
MaxRequests == 2   \* "Get answer" requests of one Help Center session

backend == <<sources, calls, tickets, products, gcs_prefix, pc, log, stream, fills, replaced>>

\* no table built, no builder started
BackendIdle ==
  /\ forms = <<>> /\ chats = <<>> /\ emails = <<>> /\ audio = <<>>
  /\ call_object_table = [exists |-> FALSE]
  /\ call_transcriptions = [exists |-> FALSE, rows |-> <<>>]
  /\ tickets = NoTable
  /\ products = NoTable
  /\ gcs_prefix = <<>>
  /\ stream = <<>>
  /\ fills = <<>>
  /\ replaced = 0
  /\ InitRuns

RECURSIVE LStrip(_)
LStrip(s) == IF s # <<>> /\ s[1] = " " THEN LStrip(Tail(s)) ELSE s

RECURSIVE RStrip(_)
RStrip(s) == IF s # <<>> /\ s[Len(s)] = " " THEN RStrip(SubSeq(s, 1, Len(s) - 1)) ELSE s

\* str.strip()
Strip(s) == RStrip(LStrip(s))

SUPPORT_EMAIL == "support@example.com"
SUPPORT_PHONE == "+90 555 000 0000"

\* the fallback reply_text of the Help Center
RoutingMessage ==
  <<"Please contact our support team for assistance:", "Email: ", SUPPORT_EMAIL,
    "Phone: ", SUPPORT_PHONE>>

\* what a question box can hold: nothing, blanks, a question, a question after a blank
Questions == {<<>>, <<" ">>, <<"h", "i">>, <<" ", "h", "i">>}

\* find_similar_tickets / run_query_to_df: raises, or returns a frame of rows
SearchOutcomes == {<<"raises">>, <<>>, <<"ticket-1">>}

\* model.generate_content: raises, or returns a response whose text is one of these
ResponseTexts == {<<"raises">>, <<>>, <<" ">>, <<"o", "k">>, <<"o", "k", " ">>}

\* vertex.draft_reply: the response text, stripped
draft_reply(text) == Strip(text)

\* a Help Center that shows whatever drafting returned
ShownAnswerAsDrafted(reply_text) == reply_text

\* `if not reply_text:` puts the routing message in place of an empty reply
ShownAnswer(reply_text) == IF reply_text = <<>> THEN RoutingMessage ELSE reply_text

\* one run of the "Get answer" handler on question q, with the outcomes s of the
\* search and d of the drafting call
Answered(q, s, d) ==
  IF Strip(q) = <<>>
  THEN [question |-> q, search |-> <<"not called">>, draft |-> <<"not called">>,
        similar_tickets |-> <<>>, warning |-> TRUE, shown |-> <<>>]
  ELSE LET similar_tickets == IF s = <<"raises">> THEN <<>> ELSE s
           reply_text == IF d = <<"raises">> THEN <<>> ELSE draft_reply(d)
       IN [question |-> q, search |-> s, draft |-> d,
           similar_tickets |-> similar_tickets, warning |-> FALSE,
           shown |-> ShownAnswer(reply_text)]

GetAnswer ==
  /\ Len(hc) < MaxRequests
  /\ \E q \in Questions, s \in SearchOutcomes, d \in ResponseTexts :
       hc' = Append(hc, Answered(q, s, d))
  /\ UNCHANGED <<backend, aa, dash, esc, norm>>

InitH == BackendIdle /\ PagesIdle

NextH == GetAnswer

SpecH == InitH /\ [][NextH]_vars

IsBlank(q) == \A k \in 1..Len(q) : q[k] = " "

Tokens(s) == {s[k] : k \in 1..Len(s)}

\* C24: every request with a non-blank question called the search and the drafting
\* and shows a non-empty answer: a failed search left the ticket list empty, and a
\* drafting call that raised or gave an empty text shows the routing message with
\* the support email and phone; a blank question called neither.
C24_AlwaysAnswered ==
  \A i \in 1..Len(hc) :
    LET r == hc[i] IN
      IF IsBlank(r.question)
      THEN r.search = <<"not called">> /\ r.draft = <<"not called">> /\ r.shown = <<>>
      ELSE /\ r.search # <<"not called">> /\ r.draft # <<"not called">>
           /\ r.shown # <<>>
           /\ r.search = <<"raises">> => r.similar_tickets = <<>>
           /\ (r.draft = <<"raises">> \/ IsBlank(r.draft)) =>
                /\ r.shown = <<"Please contact our support team for assistance:",
                               "Email: ", "support@example.com",
                               "Phone: ", "+90 555 000 0000">>
                /\ {SUPPORT_EMAIL, SUPPORT_PHONE} \subseteq Tokens(r.shown)
           /\ (r.draft # <<"raises">> /\ ~IsBlank(r.draft)) => r.shown \in {<<"o", "k">>}

\* in one session the search and the drafting failed for one question, and the
\* drafting returned blanks for another
C24_Witness ==
  /\ \E i \in 1..Len(hc) :
       /\ hc[i].search = <<"raises">> /\ hc[i].draft = <<"raises">>
       /\ hc[i].shown = RoutingMessage
  /\ \E i \in 1..Len(hc) : hc[i].draft = <<" ">> /\ hc[i].shown = RoutingMessage

(***************************************************************************)
(* Agent Assistant: one session, its "Search similar" and "Draft reply"    *)
(* submissions, and st.session_state["search_df"].                         *)
(***************************************************************************)
MaxSubmissions == 3   \* form submissions of one Agent Assistant session

NoFrame == <<"None">>   \* st.session_state.get("search_df") of a session that stored none

\* a draft handler that only checks that a frame was stored
MayDraftAnyFrame(df) == df # NoFrame

\* `if df is None or df.empty:` refuses the draft
MayDraft(df) == df # NoFrame /\ df # <<>>

\* the "Search similar" handler on issue_text, the query ending as s
SearchSimilar ==
  /\ Len(aa.done) < MaxSubmissions
  /\ \E issue_text \in Questions, s \in SearchOutcomes :
       IF Strip(issue_text) = <<>>
       THEN aa' = [aa EXCEPT !.done = Append(@, [button |-> "search", issue_text |-> issue_text,
                                                  call |-> <<"not called">>,
                                                  search_df |-> aa.search_df])]
       ELSE IF s = <<"raises">>
       THEN aa' = [aa EXCEPT !.done = Append(@, [button |-> "search", issue_text |-> issue_text,
                                                  call |-> s, search_df |-> aa.search_df])]
       ELSE aa' = [search_df |-> s,
                   done |-> Append(aa.done, [button |-> "search", issue_text |-> issue_text,
                                             call |-> s, search_df |-> s])]
  /\ UNCHANGED <<backend, hc, dash, esc, norm>>

\* the "Draft reply" handler, the model answering d
DraftReply ==
  /\ Len(aa.done) < MaxSubmissions
  /\ \E issue_text \in Questions, d \in ResponseTexts :
       IF ~MayDraft(aa.search_df)
       THEN aa' = [aa EXCEPT !.done = Append(@, [button |-> "draft", issue_text |-> issue_text,
                                                  call |-> <<"not called">>,
                                                  search_df |-> aa.search_df])]
       ELSE aa' = [aa EXCEPT !.done = Append(@, [button |-> "draft", issue_text |-> issue_text,
                                                  call |-> d, search_df |-> aa.search_df])]
  /\ UNCHANGED <<backend, hc, dash, esc, norm>>

InitA == BackendIdle /\ PagesIdle

NextA == SearchSimilar \/ DraftReply

SpecA == InitA /\ [][NextA]_vars

\* the frame the session held when submission i began
FrameBefore(i) == IF i = 1 THEN <<"None">> ELSE aa.done[i - 1].search_df

\* C25: drafting is called only while the session holds a non-empty result stored
\* by an earlier search; a search that raises leaves the stored result as it was;
\* a search returning no rows stores the empty result, and a draft on it is refused.
C25_DraftNeedsSearch ==
  \A i \in 1..Len(aa.done) :
    LET e == aa.done[i] IN
      /\ (e.button = "draft" /\ e.call # <<"not called">>) =>
           /\ FrameBefore(i) \notin {<<"None">>, <<>>}
           /\ \E j \in 1..(i - 1) :
                /\ aa.done[j].button = "search"
                /\ aa.done[j].call = FrameBefore(i)
      /\ e.button = "draft" => e.search_df = FrameBefore(i)
      /\ (e.button = "search" /\ e.call = <<"raises">>) => e.search_df = FrameBefore(i)
      /\ (e.button = "search" /\ e.call = <<>>) => e.search_df = <<>>
      /\ (e.button = "draft" /\ FrameBefore(i) \in {<<"None">>, <<>>}) =>
           e.call = <<"not called">>

\* a search found rows, a second search found none, and the draft that followed
\* was refused
C25_Witness ==
  /\ Len(aa.done) = 3
  /\ aa.done[1].button = "search" /\ aa.done[1].search_df = <<"ticket-1">>
  /\ aa.done[2].button = "search" /\ aa.done[2].call = <<>>
  /\ aa.done[3].button = "draft" /\ aa.done[3].call = <<"not called">>

(***************************************************************************)
(* Dashboard: churn_distribution_tickets.  A risk is held in hundredths,   *)
(* <<n>> for n/100 and <<>> for SQL NULL; raw_risk is what                 *)
(* AI.GENERATE_DOUBLE(...).result gave for each ticket.                    *)
(***************************************************************************)
MaxTickets == 2   \* tickets the churn distribution is computed over

\* model outputs: none, below 0, the bucket borders and their neighbours, above 1
RawRisks == {<<>>, <<-10>>, <<0>>, <<19>>, <<20>>, <<50>>, <<79>>, <<80>>, <<100>>, <<150>>}

\* GREATEST and LEAST return NULL when an argument is NULL
Greatest(a, b) == IF a = <<>> \/ b = <<>> THEN <<>> ELSE IF a[1] >= b[1] THEN a ELSE b
Least(a, b) == IF a = <<>> \/ b = <<>> THEN <<>> ELSE IF a[1] <= b[1] THEN a ELSE b

\* clean: LEAST(1.0, GREATEST(0.0, raw_risk)) AS risk
Clean(raw_risk) == Least(<<100>>, Greatest(<<0>>, raw_risk))

\* risk < x is TRUE only for a risk that is not NULL
LessThan(risk, x) == risk # <<>> /\ risk[1] < x

BucketLabels == <<"[0.0-0.2)", "[0.2-0.4)", "[0.4-0.6)", "[0.6-0.8)", "[0.8-1.0]">>

\* bucketed: CASE WHEN risk < 0.2 THEN ... ELSE '[0.8-1.0]' END
BucketLabel(risk) ==
  IF LessThan(risk, 20) THEN BucketLabels[1]
  ELSE IF LessThan(risk, 40) THEN BucketLabels[2]
  ELSE IF LessThan(risk, 60) THEN BucketLabels[3]
  ELSE IF LessThan(risk, 80) THEN BucketLabels[4]
  ELSE BucketLabels[5]

\* SELECT bucket_label, COUNT(*) AS cnt ... GROUP BY bucket_label ORDER BY bucket_label
GroupCount(labels) ==
  LET cnt(l) == Cardinality({i \in 1..Len(labels) : labels[i] = l})
      all == [k \in 1..Len(BucketLabels) |-> [bucket_label |-> BucketLabels[k],
                                               cnt |-> cnt(BucketLabels[k])]]
  IN SelectSeq(all, LAMBDA g : g.cnt > 0)

churn_distribution_tickets ==
  /\ ~dash.ran
  /\ LET bucketed == [i \in 1..Len(dash.raw_risk) |-> BucketLabel(Clean(dash.raw_risk[i]))]
     IN dash' = [dash EXCEPT !.bucketed = bucketed, !.result = GroupCount(bucketed),
                             !.ran = TRUE]
  /\ UNCHANGED <<backend, hc, aa, esc, norm>>

InitD ==
  /\ BackendIdle
  /\ hc = <<>>
  /\ aa = [search_df |-> <<"None">>, done |-> <<>>]
  /\ esc = [text |-> <<>>, safe |-> <<>>, literal |-> <<>>, at |-> "typed"]
  /\ norm = [prefix |-> <<>>, first |-> <<>>, second |-> <<>>, calls |-> 0]
  /\ dash \in {[raw_risk |-> s, bucketed |-> <<>>, result |-> <<>>, ran |-> FALSE] :
                 s \in BoundedSeq(RawRisks, MaxTickets)}

NextD == churn_distribution_tickets

SpecD == InitD /\ [][NextD]_vars

RECURSIVE SumCnt(_)
SumCnt(groups) == IF groups = <<>> THEN 0 ELSE groups[1].cnt + SumCnt(Tail(groups))

\* the risk of a model output after clamping to [0, 1]; none for a null output
ClampedRisk(raw) ==
  IF raw = <<>> THEN <<>>
  ELSE IF raw[1] < 0 THEN <<0>> ELSE IF raw[1] > 100 THEN <<100>> ELSE raw

\* the range a bucket label names holds the risk
InBucket(label, risk) ==
  /\ risk # <<>>
  /\ \/ label = "[0.0-0.2)" /\ 0 <= risk[1] /\ risk[1] < 20
     \/ label = "[0.2-0.4)" /\ 20 <= risk[1] /\ risk[1] < 40
     \/ label = "[0.4-0.6)" /\ 40 <= risk[1] /\ risk[1] < 60
     \/ label = "[0.6-0.8)" /\ 60 <= risk[1] /\ risk[1] < 80
     \/ label = "[0.8-1.0]" /\ 80 <= risk[1] /\ risk[1] <= 100

\* C28: every ticket is counted in exactly one of the five buckets, and the range
\* of its bucket holds its clamped risk, for every model output: below 0, above 1
\* and null included.
C28_BucketHoldsRisk ==
  dash.ran =>
    /\ SumCnt(dash.result) = Len(dash.raw_risk)
    /\ \A k \in 1..Len(dash.result) :
         dash.result[k].cnt =
           Cardinality({i \in 1..Len(dash.bucketed) :
                          dash.bucketed[i] = dash.result[k].bucket_label})
    /\ \A i \in 1..Len(dash.raw_risk) :
         InBucket(dash.bucketed[i], ClampedRisk(dash.raw_risk[i]))

(***************************************************************************)
(* _escape_str and the string literal the search SQL puts its result in:   *)
(* (SELECT "{safe_issue}" AS content).  The engine reads the literal from  *)
(* the character after the opening quote.                                  *)
(***************************************************************************)
MaxTextLen == 3   \* characters of a user text

\* a letter, a backslash, a double quote, a line break (st.text_area takes several lines)
TextChars == {"a", "\\", "\"", "\n"}

RECURSIVE Replace(_, _, _)
\* str.replace(old, new) for a one-character old
Replace(s, old, new) ==
  IF s = <<>> THEN <<>>
  ELSE (IF s[1] = old THEN new ELSE <<s[1]>>) \o Replace(Tail(s), old, new)

\* str(s).replace("\\", "\\\\").replace('"', '\\"')
_escape_str(s) == Replace(Replace(s, "\\", <<"\\", "\\">>), "\"", <<"\\", "\"">>)

\* the SQL text from the literal's first character on
AfterOpeningQuote(safe) == safe \o <<"\"", " ", "A", "S">>

RECURSIVE ReadLiteral(_, _)
\* the engine reading a quoted string literal: \\ and \" are escape sequences, an
\* unescaped " ends the literal, a line break inside it is an error
ReadLiteral(sql, value) ==
  IF sql = <<>> THEN <<"error: unclosed string literal">>
  ELSE IF sql[1] = "\n" THEN <<"error: unclosed string literal">>
  ELSE IF sql[1] = "\"" THEN <<"literal", value, Tail(sql)>>
  ELSE IF sql[1] = "\\"
       THEN IF Len(sql) >= 2 /\ sql[2] \in {"\\", "\""}
            THEN ReadLiteral(SubSeq(sql, 3, Len(sql)), Append(value, sql[2]))
            ELSE <<"error: illegal escape sequence">>
  ELSE ReadLiteral(Tail(sql), Append(value, sql[1]))

\* safe_issue = _escape_str(issue_text)
EscapeText ==
  /\ esc.at = "typed"
  /\ esc' = [esc EXCEPT !.safe = _escape_str(esc.text), !.at = "escaped"]
  /\ UNCHANGED <<backend, hc, aa, dash, norm>>

\* run_query_to_df(sql): the engine parses the query
ParseQuery ==
  /\ esc.at = "escaped"
  /\ esc' = [esc EXCEPT !.literal = ReadLiteral(AfterOpeningQuote(esc.safe), <<>>),
                        !.at = "parsed"]
  /\ UNCHANGED <<backend, hc, aa, dash, norm>>

InitE ==
  /\ BackendIdle
  /\ hc = <<>>
  /\ aa = [search_df |-> <<"None">>, done |-> <<>>]
  /\ dash = [raw_risk |-> <<>>, bucketed |-> <<>>, result |-> <<>>, ran |-> FALSE]
  /\ norm = [prefix |-> <<>>, first |-> <<>>, second |-> <<>>, calls |-> 0]
  /\ esc \in {[text |-> t, safe |-> <<>>, literal |-> <<>>, at |-> "typed"] :
                t \in BoundedSeq(TextChars, MaxTextLen)}

NextE == EscapeText \/ ParseQuery

SpecE == InitE /\ [][NextE]_vars

RECURSIVE EachEscaped(_, _)
\* safe is text with one backslash put before every backslash and double quote
EachEscaped(text, safe) ==
  IF text = <<>> THEN safe = <<>>
  ELSE IF text[1] \in {"\\", "\""}
       THEN /\ Len(safe) >= 2 /\ safe[1] = "\\" /\ safe[2] = text[1]
            /\ EachEscaped(Tail(text), SubSeq(safe, 3, Len(safe)))
       ELSE /\ Len(safe) >= 1 /\ safe[1] = text[1]
            /\ EachEscaped(Tail(text), Tail(safe))

\* C29: for every user text the escaped text has each backslash and double quote
\* preceded by a backslash, and between double quotes in the SQL it is read as one
\* string literal that ends at the closing quote and whose value is the text.
C29_LiteralRoundTrip ==
  /\ esc.at \in {"escaped", "parsed"} => EachEscaped(esc.text, esc.safe)
  /\ esc.at = "parsed" =>
       esc.literal = <<"literal", esc.text, <<" ", "A", "S">>>>

(***************************************************************************)
(* _normalize_gcs_prefix applied to a prefix, and again to its result.     *)
(***************************************************************************)
MaxPrefixLen == 3   \* characters of a configured prefix

PrefixChars == {":", "b", "/"}

\* prefix = _normalize_gcs_prefix(prefix)
NormalizePrefix ==
  /\ norm.calls < 2
  /\ norm' = IF norm.calls = 0
             THEN [norm EXCEPT !.first = _normalize_gcs_prefix(norm.prefix), !.calls = 1]
             ELSE [norm EXCEPT !.second = _normalize_gcs_prefix(norm.first), !.calls = 2]
  /\ UNCHANGED <<backend, hc, aa, dash, esc>>

InitN ==
  /\ BackendIdle
  /\ hc = <<>>
  /\ aa = [search_df |-> <<"None">>, done |-> <<>>]
  /\ dash = [raw_risk |-> <<>>, bucketed |-> <<>>, result |-> <<>>, ran |-> FALSE]
  /\ esc = [text |-> <<>>, safe |-> <<>>, literal |-> <<>>, at |-> "typed"]
  /\ norm \in {[prefix |-> p, first |-> <<>>, second |-> <<>>, calls |-> 0] :
                 p \in BoundedSeq(PrefixChars, MaxPrefixLen)}

NextN == NormalizePrefix

SpecN == InitN /\ [][NextN]_vars

\* s ends with one "/" and no second one before it
EndsWithOneSlash(s) ==
  /\ s # <<>>
  /\ s[Len(s)] = "/"
  /\ Len(s) >= 2 => s[Len(s) - 1] # "/"

\* C30: the result for a non-empty prefix ends with exactly one "/", whether the
\* prefix ended with no, one or several slashes; the empty prefix is returned as
\* it is; normalizing the result again changes nothing.
C30_SingleTrailingSlash ==
  /\ norm.calls >= 1 =>
       IF norm.prefix = <<>> THEN norm.first = <<>> ELSE EndsWithOneSlash(norm.first)
  /\ norm.calls = 2 => norm.second = norm.first

=============================================================================
